---- MODULE Spec2Model ----
(***************************************************************************)
(* menyoki: App::start (record / edit / capture -> save), the gifski       *)
(* encoder's Collector/Writer pipeline and the DeviceState key checks.     *)
(***************************************************************************)
EXTENDS Integers, Sequences, FiniteSets, TLC

(* ---- bounds of the model ---- *)
MaxFrames == 3      \* longest frame list recorded or decoded
MaxPixel == 2       \* pixel buffers are drawn from 1..MaxPixel
MaxFps == 2         \* record fps is drawn from 1..MaxFps
MaxRepeat == 2      \* repeat is drawn from -1..MaxRepeat
QueueBound == 2     \* capacity of the Collector -> Writer hand-off queue
MaxPresent == 2     \* most format arguments present at once in the ArgMatches drawn

Pixels == 1..MaxPixel

(* keyboard keys the device query can report *)
Keycodes == {"Escape", "LControl", "RControl", "D", "Enter", "LAlt", "S"}

(* key sets the device reports while App::start runs *)
PolledKeys == {{}, {"Escape"}, {"LControl", "D"}, {"D"}}

(* edit speed in percent, and the frame delays (1/100 s) of the GIFs decoded *)
Speeds == {0, 100, 200}
OriginalDelays == {50, 100}

(* Option<T>: None is the empty sequence, Some(x) the sequence holding x *)
None == <<>>
Some(x) == <<x>>
Unwrap(o) == o[1]

VARIABLES
    file,        \* the parsed arguments and the File (format, path) made from them
    settings,    \* AppSettings: format, edit, command, record fps, gif repeat, input state
    window,      \* App.window and the calls made on it
    pc,          \* position of the caller thread inside App::start
    result,      \* outcome of App::start: "none", "Ok", "panic" or the error returned
    image,       \* Option<Image> captured for a still format
    frames,      \* Frames value (images, fps) handed to save_gif
    recorder,    \* Recorder: mode, thread position, captured frames, stop request
    cmd,         \* the foreground command: "idle", "running", "done", "failed"
    encoder,     \* GifskiEncoder built by Gif::new: fps and gifski::Settings.once
    collector,   \* collector thread: position, loop index, polls made
    queue,       \* frames submitted by the Collector and not yet taken by the Writer
    channel,     \* hand-off channel ends: senderDropped, receiverDropped
    submitted,   \* every frame the Collector has submitted, in submission order
    output,      \* output sink: frames written, looping, finished
    keys,        \* DeviceState.keys: the last key snapshot
    cancelled,   \* result of the last check_cancel_pressed call
    mouse,       \* DeviceState.mouse: the last button snapshot, index 0 first
    clicked,     \* result of the last check_mouse_clicked call
    log          \* history of the run, for stating properties

vars == <<file, settings, window, pc, result, image, frames, recorder, cmd, encoder,
          collector, queue, channel, submitted, output, keys, cancelled,
          mouse, clicked, log>>

(* ---- pure functions ---- *)

(* the button snapshots get_mouse() can report: buttons 0 to 3 *)
ButtonStates == [1..4 -> BOOLEAN]

(* DeviceState::check_mouse_clicked on the button snapshot bs: bs[1] || bs[3],
   the vector being indexed from 0 *)
check_mouse_clicked(bs) == bs[2] \/ bs[4]

(* DeviceState::check_cancel_pressed on the key snapshot ks *)
check_cancel_pressed(ks) ==
    "Escape" \in ks \/ ("LControl" \in ks /\ "D" \in ks)

RECURSIVE GCD(_, _)
GCD(a, b) == IF b = 0 THEN a ELSE GCD(b, a % b)

(* i as f64 / fps as f64, kept as the exact fraction in lowest terms *)
Timestamp(i, fps) ==
    LET g == GCD(i, fps) IN [num |-> i \div g, den |-> fps \div g]

(* gifski::Settings.once as GifskiEncoder::new sets it *)
SettingsOnce(repeat) == repeat = 0

(* looping of the GIF gifski writes: once = play a single time, else loop forever *)
GifskiLooping(once) ==
    IF once THEN [kind |-> "once", times |-> 0] ELSE [kind |-> "infinite", times |-> 0]

(* the hand-off queue between Collector and Writer: bounded, first in first out *)
QueueHasRoom(q) == Len(q) < QueueBound
QueuePush(q, fr) == Append(q, fr)
QueueNext(q) == Head(q)
QueuePop(q) == Tail(q)

(* the delay of an edited frame: original_delay * 100 / speed *)
Delay(original, speed) == (original * 100) \div speed

(* the frame rate that plays frames delay/100 s apart *)
EquivalentFps(delay) == 100 \div delay

(* images.first() of save_gif *)
First(images) == IF Len(images) = 0 THEN None ELSE Some(images[1])

(* variant: the timestamp is taken from the next index *)
CollectorFrameNextIndex(images, i, fps) ==
    [index |-> i, data |-> images[i + 1], pts |-> Timestamp(i + 1, fps)]

(* the frame the Collector submits for index i of images *)
CollectorFrame(images, i, fps) ==
    [index |-> i, data |-> images[i + 1], pts |-> Timestamp(i, fps)]

(* ---- util/file.rs: FileFormat and File ---- *)

FileFormats == {"Any", "Gif", "Png", "Jpg", "Bmp", "Ico", "Tiff", "Pnm", "Ff"}

(* the subcommands from_args looks up, and the format subcommands inside them *)
Subcommands == {"edit", "split", "capture"}
FormatArgs == {"gif", "png", "jpg", "bmp", "ico", "tiff", "pnm", "ff"}

(* ArgMatches: the subcommands matched, and the format arguments present in the
   subcommand that from_args looks up *)
ArgMatches == [subs : SUBSET Subcommands,
               present : {p \in SUBSET FormatArgs : Cardinality(p) <= MaxPresent}]

(* file.rs lines 101-107: the subcommand from_args looks up *)
LookedUp(args) ==
    IF "edit" \in args.subs THEN "edit"
    ELSE IF "split" \in args.subs THEN "split"
    ELSE "capture"

(* variant: jpg is looked for before ico *)
from_args_JpgBeforeIco(args) ==
    IF LookedUp(args) \in args.subs
    THEN IF "gif" \in args.present THEN "Gif"
         ELSE IF "ff" \in args.present THEN "Ff"
         ELSE IF "tiff" \in args.present THEN "Tiff"
         ELSE IF "pnm" \in args.present THEN "Pnm"
         ELSE IF "bmp" \in args.present THEN "Bmp"
         ELSE IF "jpg" \in args.present THEN "Jpg"
         ELSE IF "ico" \in args.present THEN "Ico"
         ELSE "Png"
    ELSE "Gif"

(* FileFormat::from_args, file.rs lines 100-129 *)
from_args(args) ==
    IF LookedUp(args) \in args.subs
    THEN IF "gif" \in args.present THEN "Gif"
         ELSE IF "ff" \in args.present THEN "Ff"
         ELSE IF "tiff" \in args.present THEN "Tiff"
         ELSE IF "pnm" \in args.present THEN "Pnm"
         ELSE IF "bmp" \in args.present THEN "Bmp"
         ELSE IF "ico" \in args.present THEN "Ico"
         ELSE IF "jpg" \in args.present THEN "Jpg"
         ELSE "Png"
    ELSE "Gif"

(* strings are sequences of characters *)
DEFAULT_FILE_NAME == <<"t">>

(* Display for FileFormat, file.rs lines 65-73: the variant's name, "*" for Any *)
to_string(format) ==
    CASE format = "Any" -> <<"*">>
      [] format = "Gif" -> <<"G", "i", "f">>
      [] format = "Png" -> <<"P", "n", "g">>
      [] format = "Jpg" -> <<"J", "p", "g">>
      [] format = "Bmp" -> <<"B", "m", "p">>
      [] format = "Ico" -> <<"I", "c", "o">>
      [] format = "Tiff" -> <<"T", "i", "f", "f">>
      [] format = "Pnm" -> <<"P", "n", "m">>
      [] format = "Ff" -> <<"F", "f">>

LowerChar(ch) ==
    CASE ch = "G" -> "g" [] ch = "P" -> "p" [] ch = "J" -> "j" [] ch = "B" -> "b"
      [] ch = "I" -> "i" [] ch = "T" -> "t" [] ch = "F" -> "f" [] OTHER -> ch

(* str::to_lowercase *)
to_lowercase(str) == [k \in 1..Len(str) |-> LowerChar(str[k])]

(* the positions of "." in a file name *)
Dots(name) == {k \in 1..Len(name) : name[k] = "."}
LastDot(name) == CHOOSE k \in Dots(name) : \A j \in Dots(name) : j <= k

(* Path::extension: what follows the last "." of the file name, None when there
   is no "." or the name only starts with one *)
extension(path) ==
    IF Dots(path.name) = {} \/ LastDot(path.name) = 1 THEN None
    ELSE Some(SubSeq(path.name, LastDot(path.name) + 1, Len(path.name)))

(* Path::file_stem *)
file_stem(path) ==
    IF extension(path) = None THEN path.name
    ELSE SubSeq(path.name, 1, LastDot(path.name) - 1)

(* Path::with_extension *)
with_extension(path, ext) == [path EXCEPT !.name = file_stem(path) \o <<".">> \o ext]

(* File::get_default_path, file.rs lines 178-187 *)
get_default_path(file_name) == [dir |-> "pictures", name |-> file_name]

(* File::get_path_with_extension, file.rs lines 196-203 *)
get_path_with_extension(path, format) ==
    IF extension(path) \in {Some(<<"*">>), None}
    THEN with_extension(path, to_lowercase(to_string(format)))
    ELSE path

(* File::new, file.rs lines 147-153 *)
NewFile(path, format) ==
    [path |-> get_path_with_extension(path, format), format |-> format]

(* File::from_format, file.rs lines 161-170 *)
from_format(format) ==
    NewFile(get_default_path(DEFAULT_FILE_NAME \o <<".">>
                                \o to_lowercase(to_string(format))),
            format)

(* the arguments together with the File made from them *)
FileOf(args) == [args |-> args, file |-> from_format(from_args(args))]

NoArgs == [subs |-> {}, present |-> {}]

(* the arguments App::start is run with: record, capture png, edit gif, edit png *)
StartArgs == {NoArgs,
              [subs |-> {"capture"}, present |-> {}],
              [subs |-> {"edit"}, present |-> {"gif"}],
              [subs |-> {"edit"}, present |-> {}]}

(* ---- initial state ---- *)

NoRecorder == [mode |-> "none", pc |-> "idle", frames |-> <<>>, stop |-> FALSE]
NoCollector == [pc |-> "idle", i |-> 0, polls |-> 0]
NoEncoder == [created |-> FALSE, fps |-> 0, once |-> FALSE]
Unset == [kind |-> "unset", times |-> 0]
NoOutput == [frames |-> <<>>, looping |-> Unset, finished |-> FALSE]
NoImage == [thread |-> "none", value |-> None]
NoLog == [lateCalls |-> 0, recordEnd |-> "no", recPolls |-> 0, cmdAtJoin |-> "no",
          recorded |-> None, handed |-> None, savedAtRelease |-> "no",
          stills |-> 0, decoded |-> FALSE, encodeCancel |-> None,
          rejected |-> FALSE, delay |-> None, cancelSeen |-> FALSE,
          clickSeen |-> FALSE, opened |-> "no", saveGif |-> "no"]

(* App::new and the state before App::start: nothing captured, encoded or polled *)
InitApp ==
    /\ pc = "start"
    /\ result = "none"
    /\ image = NoImage
    /\ frames = None
    /\ recorder = NoRecorder
    /\ cmd = "idle"
    /\ encoder = NoEncoder
    /\ collector = NoCollector
    /\ queue = <<>>
    /\ channel = [senderDropped |-> FALSE, receiverDropped |-> FALSE]
    /\ submitted = <<>>
    /\ output = NoOutput
    /\ keys = {}
    /\ cancelled = FALSE
    /\ mouse = <<>>
    /\ clicked = FALSE
    /\ log = NoLog

Init ==
    /\ file \in {FileOf(args) : args \in StartArgs}
    /\ settings \in {s \in [format : {"Gif", "Png"}, edit : BOOLEAN, command : BOOLEAN,
                            fps : 1..MaxFps, repeat : -1..MaxRepeat,
                            input_state : BOOLEAN, speed : Speeds] :
                         /\ s.format = file.file.format
                         /\ s.edit = ("edit" \in file.args.subs)
                         /\ ~s.edit => s.speed = 100}
    /\ window \in [present : BOOLEAN, released : {0}]
    /\ InitApp

(* ---- helpers of the actions ---- *)

Panic == /\ pc' = "panicked"
         /\ result' = "panic"

(* a get_image or show_countdown call on the window *)
WindowCall(l) ==
    IF window.released > 0 THEN [l EXCEPT !.lateCalls = @ + 1] ELSE l

EncoderIdle == UNCHANGED <<encoder, collector, queue, channel, submitted, output>>
MouseIdle == UNCHANGED <<mouse, clicked>>
PollIdle == UNCHANGED <<keys, cancelled, mouse, clicked>>

(* ---- App::start ---- *)

(* variant: a still image is captured whenever edit is absent, GIF or not *)
StartCaptureWithoutEdit ==
    /\ pc = "start"
    /\ pc' = IF ~settings.edit THEN "capture"
             ELSE IF settings.format # "Gif" THEN "save_image"
             ELSE "open_edit"
    /\ UNCHANGED <<settings, file, window, result, image, frames, recorder, cmd, log>>
    /\ EncoderIdle /\ PollIdle

(* lines 67-74: choose the frame source from edit and the output format *)
Start ==
    /\ pc = "start"
    /\ pc' = IF ~settings.edit /\ settings.format # "Gif" THEN "capture"
             ELSE IF settings.format # "Gif" THEN "save_image"
             ELSE IF settings.edit THEN "open_edit"
             ELSE "record"
    /\ UNCHANGED <<settings, file, window, result, image, frames, recorder, cmd, log>>
    /\ EncoderIdle /\ PollIdle

(* variant: a failed File::open is not returned; start goes on to the decoder *)
EditGifIgnoreOpenError ==
    /\ pc = "open_edit"
    /\ \/ /\ pc' = "decoder_new"
          /\ log' = [log EXCEPT !.opened = "Err(open)"]
       \/ /\ pc' = "decoder_new"
          /\ log' = [log EXCEPT !.opened = "Ok"]
    /\ UNCHANGED <<settings, file, window, result, image, frames, recorder, cmd>>
    /\ EncoderIdle /\ PollIdle

(* line 82: File::open(edit.file)?: a failure is returned by start *)
EditGif ==
    /\ pc = "open_edit"
    /\ \/ /\ pc' = "returned"
          /\ result' = "Err(open)"
          /\ log' = [log EXCEPT !.opened = "Err(open)"]
       \/ /\ pc' = "decoder_new"
          /\ log' = [log EXCEPT !.opened = "Ok"]
          /\ UNCHANGED result
    /\ UNCHANGED <<settings, file, window, image, frames, recorder, cmd>>
    /\ EncoderIdle /\ PollIdle

(* variant: the decoder is built without looking at the speed *)
DecoderNewNoSpeedCheck ==
    /\ pc = "decoder_new"
    /\ \/ Panic /\ UNCHANGED log
       \/ pc' = "update_frames" /\ UNCHANGED <<result, log>>
    /\ UNCHANGED <<settings, file, window, image, frames, recorder, cmd>>
    /\ EncoderIdle /\ PollIdle

(* app.rs lines 172-173: Decoder::new(..).expect(..): a speed of 0 is refused as a
   configuration error before anything is decoded; an unreadable GIF fails too *)
DecoderNew ==
    /\ pc = "decoder_new"
    /\ IF settings.speed = 0
       THEN Panic /\ log' = [log EXCEPT !.rejected = TRUE]
       ELSE \/ Panic /\ UNCHANGED log
            \/ pc' = "update_frames" /\ UNCHANGED <<result, log>>
    /\ UNCHANGED <<settings, file, window, image, frames, recorder, cmd>>
    /\ EncoderIdle /\ PollIdle

(* app.rs lines 174-175: update_frames().expect(..): the frames are decoded and
   edited, each delay becomes original_delay * 100 / speed; a division by zero
   and a failed decode are fatal *)
UpdateFrames ==
    /\ pc = "update_frames"
    /\ IF settings.speed = 0
       THEN /\ Panic
            /\ log' = [log EXCEPT !.decoded = TRUE, !.delay = Some(0)]
            /\ UNCHANGED frames
       ELSE \/ /\ Panic
               /\ log' = [log EXCEPT !.decoded = TRUE]
               /\ UNCHANGED frames
            \/ /\ \E n \in 1..MaxFrames, d \in OriginalDelays :
                     \E imgs \in [1..n -> Pixels] :
                        /\ frames' = Some([images |-> imgs,
                                           fps |-> EquivalentFps(Delay(d, settings.speed))])
                        /\ log' = [log EXCEPT !.decoded = TRUE,
                                              !.delay = Some(Delay(d, settings.speed))]
               /\ pc' = "save_gif"
               /\ UNCHANGED result
    /\ UNCHANGED <<settings, file, window, image, recorder, cmd>>
    /\ EncoderIdle /\ PollIdle

(* ---- App::capture ---- *)

(* lines 143-149 and 159-161: the window is required; with a command the image is
   taken on a thread of its own, else on the caller's thread *)
Capture ==
    /\ pc = "capture"
    /\ IF ~window.present
       THEN Panic /\ UNCHANGED <<image, log>>
       ELSE IF settings.command
            THEN /\ image' = [thread |-> "running", value |-> None]
                 /\ pc' = "command"
                 /\ UNCHANGED <<result, log>>
            ELSE /\ \E v \in {None} \cup {Some(p) : p \in Pixels} :
                        image' = [thread |-> "none", value |-> v]
                 /\ log' = [WindowCall(WindowCall(log)) EXCEPT !.stills = @ + 1]
                 /\ pc' = "save_image"
                 /\ UNCHANGED result
    /\ UNCHANGED <<settings, file, window, frames, recorder, cmd>>
    /\ EncoderIdle /\ PollIdle

(* lines 145-149: the image thread: show_countdown, then get_image *)
ImageThread ==
    /\ image.thread = "running"
    /\ \E v \in {None} \cup {Some(p) : p \in Pixels} :
          image' = [thread |-> "done", value |-> v]
    /\ log' = [WindowCall(WindowCall(log)) EXCEPT !.stills = @ + 1]
    /\ UNCHANGED <<settings, file, window, pc, result, frames, recorder, cmd>>
    /\ EncoderIdle /\ PollIdle

(* lines 155-157: join the image thread *)
JoinImage ==
    /\ pc = "join_image"
    /\ image.thread = "done"
    /\ image' = [image EXCEPT !.thread = "joined"]
    /\ pc' = "save_image"
    /\ UNCHANGED <<settings, file, window, result, frames, recorder, cmd, log>>
    /\ EncoderIdle /\ PollIdle

(* lines 211-232: save_image: the image is required, then it is encoded *)
SaveImage ==
    /\ pc = "save_image"
    /\ IF image.value = None
       THEN Panic /\ UNCHANGED output
       ELSE \/ Panic /\ UNCHANGED output          \* write_image fails
            \/ /\ output' = [frames |-> <<Unwrap(image.value)>>, looping |-> Unset,
                             finished |-> TRUE]
               /\ pc' = "metadata"
               /\ UNCHANGED result
    /\ UNCHANGED <<settings, file, window, image, frames, recorder, cmd, log,
                   encoder, collector, queue, channel, submitted>>
    /\ PollIdle

(* ---- the foreground command (capture and record) ---- *)

(* lines 150-154 and 190-194: run the command to completion *)
Execute ==
    /\ pc = "command"
    /\ \/ /\ cmd' = "done"
          /\ pc' = IF settings.format = "Gif" THEN "join" ELSE "join_image"
          /\ UNCHANGED result
       \/ /\ cmd' = "failed"
          /\ Panic
    /\ UNCHANGED <<settings, file, window, image, frames, recorder, log>>
    /\ EncoderIdle /\ PollIdle

(* ---- App::record and the Recorder ---- *)

(* variant: in command mode the recording is joined before the command is run *)
RecordJoinFirst ==
    /\ pc = "record"
    /\ IF ~window.present
       THEN Panic /\ UNCHANGED recorder
       ELSE /\ recorder' = [mode |-> IF settings.command THEN "async" ELSE "sync",
                            pc |-> "running", frames |-> <<>>, stop |-> FALSE]
            /\ pc' = IF settings.command THEN "join" ELSE "record_sync"
            /\ UNCHANGED result
    /\ UNCHANGED <<settings, file, window, image, frames, cmd, log>>
    /\ EncoderIdle /\ PollIdle

(* lines 184-189 and 199-200: Recorder::new needs the window; with a command the
   loop is spawned by record_async, else record_sync runs it on the caller *)
Record ==
    /\ pc = "record"
    /\ IF ~window.present
       THEN Panic /\ UNCHANGED recorder
       ELSE /\ recorder' = [mode |-> IF settings.command THEN "async" ELSE "sync",
                            pc |-> "running", frames |-> <<>>, stop |-> FALSE]
            /\ pc' = IF settings.command THEN "command" ELSE "record_sync"
            /\ UNCHANGED result
    /\ UNCHANGED <<settings, file, window, image, frames, cmd, log>>
    /\ EncoderIdle /\ PollIdle

(* one tick of the capture loop: get_image, and the image is appended; a capture
   that yields no image is fatal *)
RecorderTick ==
    /\ recorder.pc = "running"
    /\ recorder.mode = "sync" => pc = "record_sync"
    /\ Len(recorder.frames) < MaxFrames
    /\ ~(recorder.mode = "async" /\ recorder.stop)
    /\ \/ /\ \E p \in Pixels :
                recorder' = [recorder EXCEPT
                                !.frames = Append(@, p),
                                !.pc = IF recorder.mode = "sync" THEN "poll" ELSE "running"]
          /\ UNCHANGED <<pc, result>>
       \/ /\ recorder' = [recorder EXCEPT !.pc = "panicked"]
          /\ IF recorder.mode = "sync" THEN Panic ELSE UNCHANGED <<pc, result>>
    /\ log' = WindowCall(log)
    /\ UNCHANGED <<settings, file, window, image, frames, cmd>>
    /\ EncoderIdle /\ PollIdle

(* record_sync polls the cancel keys after each appended frame *)
RecorderPoll ==
    /\ recorder.pc = "poll"
    /\ pc = "record_sync"
    /\ \E ks \in PolledKeys :
          /\ keys' = ks
          /\ cancelled' = check_cancel_pressed(ks)
          /\ recorder' = [recorder EXCEPT
                             !.pc = IF check_cancel_pressed(ks) THEN "done" ELSE "running"]
          /\ log' = [log EXCEPT
                        !.recPolls = @ + 1,
                        !.recordEnd = IF check_cancel_pressed(ks) THEN "cancelled" ELSE @]
    /\ UNCHANGED <<settings, file, window, pc, result, image, frames, cmd>>
    /\ EncoderIdle /\ MouseIdle

(* the loop ends on duration expiry, or, in async mode, on the stop request *)
RecorderComplete ==
    /\ recorder.pc = "running"
    /\ recorder.mode = "sync" => pc = "record_sync"
    /\ recorder' = [recorder EXCEPT !.pc = "done"]
    /\ log' = [log EXCEPT !.recordEnd = "completed"]
    /\ UNCHANGED <<settings, file, window, pc, result, image, frames, cmd>>
    /\ EncoderIdle /\ PollIdle

(* variant: the frame captured just before the cancel is left out *)
RecordSyncReturnDropLast ==
    /\ pc = "record_sync"
    /\ recorder.pc = "done"
    /\ frames' = Some([images |-> IF log.recordEnd = "cancelled"
                                  THEN SubSeq(recorder.frames, 1, Len(recorder.frames) - 1)
                                  ELSE recorder.frames,
                       fps |-> settings.fps])
    /\ log' = [log EXCEPT !.recorded = Some(Unwrap(frames').images)]
    /\ pc' = "save_gif"
    /\ UNCHANGED <<settings, file, window, result, image, recorder, cmd>>
    /\ EncoderIdle /\ PollIdle

(* lines 84 and 200: record_sync returns the frames; start pairs them with record.fps *)
RecordSyncReturn ==
    /\ pc = "record_sync"
    /\ recorder.pc = "done"
    /\ frames' = Some([images |-> recorder.frames, fps |-> settings.fps])
    /\ log' = [log EXCEPT !.recorded = Some(recorder.frames)]
    /\ pc' = "save_gif"
    /\ UNCHANGED <<settings, file, window, result, image, recorder, cmd>>
    /\ EncoderIdle /\ PollIdle

(* line 195: record.get() asks the loop to stop ... *)
RecordGetStop ==
    /\ pc = "join"
    /\ recorder' = [recorder EXCEPT !.stop = TRUE]
    /\ pc' = "joining"
    /\ UNCHANGED <<settings, file, window, result, image, frames, cmd, log>>
    /\ EncoderIdle /\ PollIdle

(* the value of record.get() as App::record unwraps it, lines 195-198 *)
GetFrames(r) == IF r = None THEN <<>> ELSE Unwrap(r)

(* ... and joins it (lines 195-198, 84): the frames move to the caller *)
RecordGetJoin ==
    /\ pc = "joining"
    /\ recorder.pc \in {"done", "panicked"}
    /\ IF recorder.pc = "panicked"
       THEN Panic /\ UNCHANGED <<frames, recorder>>
       ELSE /\ frames' = Some([images |-> GetFrames(Some(recorder.frames)),
                               fps |-> settings.fps])
            /\ recorder' = [recorder EXCEPT !.pc = "joined"]
            /\ pc' = "save_gif"
            /\ UNCHANGED result
    /\ log' = [log EXCEPT !.cmdAtJoin = cmd,
                          !.recorded = IF recorder.pc = "panicked" THEN @
                                       ELSE Some(recorder.frames)]
    /\ UNCHANGED <<settings, file, window, image, cmd>>
    /\ EncoderIdle /\ PollIdle

(* ---- App::save_gif and GifskiEncoder ---- *)

Images == Unwrap(frames).images

(* GifskiEncoder::new, ski.rs lines 28-48 *)
NewEncoder(fps, repeat) ==
    [created |-> TRUE, fps |-> fps, once |-> SettingsOnce(repeat)]

(* variant: Gif::new is called without asking for the first image *)
SaveGifNoFirstCheck ==
    /\ pc = "save_gif"
    /\ log' = [log EXCEPT !.handed = frames]
    /\ \/ Panic /\ UNCHANGED encoder
       \/ /\ encoder' = NewEncoder(Unwrap(frames).fps, settings.repeat)
          /\ pc' = "save"
          /\ UNCHANGED result
    /\ UNCHANGED <<settings, file, window, image, frames, recorder, cmd,
                   collector, queue, channel, submitted, output>>
    /\ PollIdle

(* variant: an error of save_gif is dropped and start goes on to its end *)
SaveGifSwallowError ==
    /\ pc = "save_gif"
    /\ IF First(Images) = None
       THEN Panic /\ UNCHANGED encoder /\ log' = [log EXCEPT !.handed = frames]
       ELSE \/ /\ Panic /\ UNCHANGED encoder
               /\ log' = [log EXCEPT !.handed = frames]
            \/ /\ pc' = "metadata"
               /\ log' = [log EXCEPT !.handed = frames, !.saveGif = "Err(new)"]
               /\ UNCHANGED <<encoder, result>>
            \/ /\ encoder' = NewEncoder(Unwrap(frames).fps, settings.repeat)
               /\ pc' = "save"
               /\ log' = [log EXCEPT !.handed = frames]
               /\ UNCHANGED result
    /\ UNCHANGED <<settings, file, window, image, frames, recorder, cmd,
                   collector, queue, channel, submitted, output>>
    /\ PollIdle

(* app.rs lines 246-252 and 86: the first image is required before Gif::new is
   called; gifski::new may refuse the settings (ski.rs line 41); an Err of
   Gif::new is returned by save_gif (the ? of line 252) and then by start (the ?
   of line 86) *)
SaveGif ==
    /\ pc = "save_gif"
    /\ IF First(Images) = None
       THEN Panic /\ UNCHANGED encoder /\ log' = [log EXCEPT !.handed = frames]
       ELSE \/ /\ Panic /\ UNCHANGED encoder
               /\ log' = [log EXCEPT !.handed = frames]
            \/ /\ pc' = "returned"
               /\ result' = "Err(new)"
               /\ log' = [log EXCEPT !.handed = frames, !.saveGif = "Err(new)"]
               /\ UNCHANGED encoder
            \/ /\ encoder' = NewEncoder(Unwrap(frames).fps, settings.repeat)
               /\ pc' = "save"
               /\ log' = [log EXCEPT !.handed = frames]
               /\ UNCHANGED result
    /\ UNCHANGED <<settings, file, window, image, frames, recorder, cmd,
                   collector, queue, channel, submitted, output>>
    /\ PollIdle

(* ski.rs lines 57-59: save spawns the collector thread and goes on to the writer *)
Save ==
    /\ pc = "save"
    /\ collector' = [pc |-> "check", i |-> 0, polls |-> 0]
    /\ pc' = "write"
    /\ UNCHANGED <<settings, file, window, result, image, frames, recorder, cmd, log,
                   encoder, queue, channel, submitted, output>>
    /\ PollIdle

(* the collector panics: unwinding drops the Collector, closing the queue's sender *)
CollectorPanic ==
    /\ collector' = [collector EXCEPT !.pc = "unwinding"]
    /\ channel' = [channel EXCEPT !.senderDropped = TRUE]

(* variant: a cancel stops the collector thread but its Collector is never
   dropped, so the queue stays open *)
CollectorCheckLeakOnCancel ==
    /\ collector.pc = "check"
    /\ collector.i < Len(Images)
    /\ IF settings.input_state
       THEN \E ks \in PolledKeys :
               /\ keys' = ks
               /\ cancelled' = check_cancel_pressed(ks)
               /\ IF check_cancel_pressed(ks)
                  THEN /\ collector' = [collector EXCEPT !.pc = "unwinding",
                                                         !.polls = @ + 1]
                       /\ log' = [log EXCEPT !.encodeCancel = Some(collector.i)]
                  ELSE /\ collector' = [collector EXCEPT !.pc = "add", !.polls = @ + 1]
                       /\ UNCHANGED log
               /\ UNCHANGED channel
       ELSE /\ collector' = [collector EXCEPT !.pc = "add"]
            /\ UNCHANGED <<channel, keys, cancelled, log>>
    /\ UNCHANGED <<settings, file, window, pc, result, image, frames, recorder, cmd,
                   encoder, queue, submitted, output>>
    /\ MouseIdle

(* variant: a cancel is noticed but the frame is submitted all the same *)
CollectorCheckNoAbort ==
    /\ collector.pc = "check"
    /\ collector.i < Len(Images)
    /\ IF settings.input_state
       THEN \E ks \in PolledKeys :
               /\ keys' = ks
               /\ cancelled' = check_cancel_pressed(ks)
               /\ collector' = [collector EXCEPT !.pc = "add", !.polls = @ + 1]
               /\ log' = IF check_cancel_pressed(ks)
                         THEN [log EXCEPT !.encodeCancel = Some(collector.i)]
                         ELSE log
               /\ UNCHANGED channel
       ELSE /\ collector' = [collector EXCEPT !.pc = "add"]
            /\ UNCHANGED <<channel, keys, cancelled, log>>
    /\ UNCHANGED <<settings, file, window, pc, result, image, frames, recorder, cmd,
                   encoder, queue, submitted, output>>
    /\ MouseIdle

(* ski.rs lines 60 and 70-76: top of the loop body for index i; with an input state
   the cancel keys are checked, and a cancel panics *)
CollectorCheck ==
    /\ collector.pc = "check"
    /\ collector.i < Len(Images)
    /\ IF settings.input_state
       THEN \E ks \in PolledKeys :
               /\ keys' = ks
               /\ cancelled' = check_cancel_pressed(ks)
               /\ IF check_cancel_pressed(ks)
                  THEN /\ collector' = [collector EXCEPT !.pc = "unwinding",
                                                         !.polls = @ + 1]
                       /\ channel' = [channel EXCEPT !.senderDropped = TRUE]
                       /\ log' = [log EXCEPT !.encodeCancel = Some(collector.i)]
                  ELSE /\ collector' = [collector EXCEPT !.pc = "add", !.polls = @ + 1]
                       /\ UNCHANGED <<channel, log>>
       ELSE /\ collector' = [collector EXCEPT !.pc = "add"]
            /\ UNCHANGED <<channel, keys, cancelled, log>>
    /\ UNCHANGED <<settings, file, window, pc, result, image, frames, recorder, cmd,
                   encoder, queue, submitted, output>>
    /\ MouseIdle

(* variant: a frame that finds the queue full is dropped instead of waiting *)
CollectorAddDropWhenFull ==
    /\ collector.pc = "add"
    /\ IF channel.receiverDropped
       THEN CollectorPanic /\ UNCHANGED <<queue, submitted>>
       ELSE /\ queue' = IF QueueHasRoom(queue)
                        THEN QueuePush(queue,
                                       CollectorFrame(Images, collector.i, encoder.fps))
                        ELSE queue
            /\ submitted' =
                  Append(submitted, CollectorFrame(Images, collector.i, encoder.fps))
            /\ collector' = [collector EXCEPT !.pc = "check", !.i = @ + 1]
            /\ UNCHANGED channel
    /\ UNCHANGED <<settings, file, window, pc, result, image, frames, recorder, cmd, log,
                   encoder, output>>
    /\ PollIdle

(* ski.rs lines 77-79: add_frame_rgba(i, image, i / fps) waits for room in the
   queue; it fails once the Writer is gone, and the expect panics *)
CollectorAdd ==
    /\ collector.pc = "add"
    /\ IF channel.receiverDropped
       THEN CollectorPanic /\ UNCHANGED <<queue, submitted>>
       ELSE /\ QueueHasRoom(queue)
            /\ queue' = QueuePush(queue, CollectorFrame(Images, collector.i, encoder.fps))
            /\ submitted' =
                  Append(submitted, CollectorFrame(Images, collector.i, encoder.fps))
            /\ collector' = [collector EXCEPT !.pc = "check", !.i = @ + 1]
            /\ UNCHANGED channel
    /\ UNCHANGED <<settings, file, window, pc, result, image, frames, recorder, cmd, log,
                   encoder, output>>
    /\ PollIdle

(* ski.rs lines 80-82: the loop is over; the closure returns and drops the Collector *)
CollectorExit ==
    /\ collector.pc = "check"
    /\ collector.i = Len(Images)
    /\ collector' = [collector EXCEPT !.pc = "exiting"]
    /\ channel' = [channel EXCEPT !.senderDropped = TRUE]
    /\ UNCHANGED <<settings, file, window, pc, result, image, frames, recorder, cmd, log,
                   encoder, queue, submitted, output>>
    /\ PollIdle

(* the collector thread ends, with its result or with its panic *)
CollectorTerminate ==
    /\ collector.pc \in {"exiting", "unwinding"}
    /\ collector' = [collector EXCEPT
                        !.pc = IF collector.pc = "exiting" THEN "done" ELSE "panicked"]
    /\ UNCHANGED <<settings, file, window, pc, result, image, frames, recorder, cmd, log,
                   encoder, queue, channel, submitted, output>>
    /\ PollIdle

(* ski.rs lines 83-85: Writer::write takes the next frame and writes it to the
   output; a failed write drops the Writer and the expect panics *)
WriterTake ==
    /\ pc = "write"
    /\ queue # <<>>
    /\ \/ /\ output' = [output EXCEPT !.frames = Append(@, QueueNext(queue)),
                                      !.looping = GifskiLooping(encoder.once)]
          /\ queue' = QueuePop(queue)
          /\ UNCHANGED <<pc, result, channel>>
       \/ /\ Panic
          /\ channel' = [channel EXCEPT !.receiverDropped = TRUE]
          /\ UNCHANGED <<queue, output>>
    /\ UNCHANGED <<settings, file, window, image, frames, recorder, cmd, log,
                   encoder, collector, submitted>>
    /\ PollIdle

(* ski.rs lines 83-85: the queue is drained and closed: the output is finished
   and write returns *)
WriterFinish ==
    /\ pc = "write"
    /\ queue = <<>>
    /\ channel.senderDropped
    /\ output' = [output EXCEPT !.finished = TRUE,
                                !.looping = GifskiLooping(encoder.once)]
    /\ pc' = "join_collector"
    /\ UNCHANGED <<settings, file, window, result, image, frames, recorder, cmd, log,
                   encoder, collector, queue, channel, submitted>>
    /\ PollIdle

(* variant: save does not wait for the collector thread to end *)
JoinCollectorNoWait ==
    /\ pc = "join_collector"
    /\ IF collector.pc \in {"unwinding", "panicked"}
       THEN Panic
       ELSE pc' = "metadata" /\ UNCHANGED result
    /\ UNCHANGED <<settings, file, window, image, frames, recorder, cmd, log>>
    /\ EncoderIdle /\ PollIdle

(* ski.rs lines 86-88: join the collector thread; its panic is passed on *)
JoinCollector ==
    /\ pc = "join_collector"
    /\ collector.pc \in {"done", "panicked"}
    /\ IF collector.pc = "panicked"
       THEN Panic
       ELSE pc' = "metadata" /\ UNCHANGED result
    /\ UNCHANGED <<settings, file, window, image, frames, recorder, cmd, log>>
    /\ EncoderIdle /\ PollIdle

(* ---- the end of App::start ---- *)

(* app.rs lines 125-130: fs::metadata(path)? of the saved file *)
Metadata ==
    /\ pc = "metadata"
    /\ \/ pc' = "release" /\ UNCHANGED result
       \/ pc' = "returned" /\ result' = "Err(metadata)"
    /\ UNCHANGED <<settings, file, window, image, frames, recorder, cmd, log>>
    /\ EncoderIdle /\ PollIdle

(* app.rs lines 131-134: release the window, if any, and return Ok *)
Release ==
    /\ pc = "release"
    /\ window' = IF window.present THEN [window EXCEPT !.released = @ + 1] ELSE window
    /\ log' = [log EXCEPT !.savedAtRelease = IF output.finished THEN "saved" ELSE "unsaved"]
    /\ pc' = "returned"
    /\ result' = "Ok"
    /\ UNCHANGED <<settings, file, image, frames, recorder, cmd>>
    /\ EncoderIdle /\ PollIdle

Next ==
    \/ Start \/ EditGif \/ DecoderNew \/ UpdateFrames \/ Capture \/ ImageThread \/ JoinImage \/ SaveImage
    \/ Execute \/ Record \/ RecorderTick \/ RecorderPoll \/ RecorderComplete
    \/ RecordSyncReturn \/ RecordGetStop \/ RecordGetJoin
    \/ SaveGif \/ Save \/ CollectorCheck \/ CollectorAdd \/ CollectorExit
    \/ CollectorTerminate \/ WriterTake \/ WriterFinish \/ JoinCollector
    \/ Metadata \/ Release

Spec == Init /\ [][Next]_vars

(* ---- DeviceState on its own: every key snapshot ---- *)

InitDevice ==
    /\ settings = [format |-> "Gif", edit |-> FALSE, command |-> FALSE,
                   fps |-> 1, repeat |-> -1, input_state |-> TRUE, speed |-> 100]
    /\ window = [present |-> TRUE, released |-> 0]
    /\ file = FileOf(NoArgs)
    /\ InitApp

(* variant: once a cancel was seen, later calls keep reporting it *)
CheckCancelPressedLatched ==
    /\ \E ks \in SUBSET Keycodes :
          /\ keys' = ks
          /\ cancelled' = (cancelled \/ check_cancel_pressed(ks))
          /\ log' = [log EXCEPT !.cancelSeen = @ \/ cancelled]
    /\ UNCHANGED <<settings, file, window, pc, result, image, frames, recorder, cmd>>
    /\ EncoderIdle /\ MouseIdle

(* device.rs lines 49-54: self.keys = get_keys(); the check is made on self.keys *)
CheckCancelPressed ==
    /\ \E ks \in SUBSET Keycodes :
          /\ keys' = ks
          /\ cancelled' = check_cancel_pressed(ks)
          /\ log' = [log EXCEPT !.cancelSeen = @ \/ cancelled]
    /\ UNCHANGED <<settings, file, window, pc, result, image, frames, recorder, cmd>>
    /\ EncoderIdle /\ MouseIdle

(* device.rs lines 39-42: self.mouse = get_mouse().button_pressed; the check is
   made on self.mouse *)
CheckMouseClicked ==
    /\ \E bs \in ButtonStates :
          /\ mouse' = bs
          /\ clicked' = check_mouse_clicked(bs)
          /\ log' = [log EXCEPT !.clickSeen = @ \/ clicked]
    /\ UNCHANGED <<settings, file, window, pc, result, image, frames, recorder, cmd,
                   keys, cancelled>>
    /\ EncoderIdle

NextDevice == CheckCancelPressed \/ CheckMouseClicked

SpecDevice == InitDevice /\ [][NextDevice]_vars

(* ======================= properties ======================= *)

SaveStarted == encoder.created /\ collector.pc # "idle"
(* GifskiEncoder::save has returned normally to save_gif *)
SaveReturned == encoder.created /\ pc \in {"metadata", "release", "returned"}
Data(frs) == [k \in 1..Len(frs) |-> frs[k].data]

(* C1: whenever save has returned normally, the collector thread has submitted
   every frame and has terminated, and the Writer has taken every frame from the
   queue, written it and finished the output. *)
C1_SaveIsSynchronous ==
    SaveReturned =>
        /\ collector.pc = "done"
        /\ collector.i = Len(Images)
        /\ Len(submitted) = Len(Images)
        /\ queue = <<>>
        /\ output.finished
        /\ output.frames = submitted

C1_Witness ==
    /\ SaveReturned
    /\ Len(Images) = 2
    /\ Len(output.frames) = 2

(* C2: the k-th frame submitted has index k-1, the pixel data of image k-1 and
   the timestamp (k-1)/fps; a Collector that ends without a panic has submitted
   all n frames, and the output of a save that returned has n frames. *)
C2_FramesInIndexOrder ==
    SaveStarted =>
        /\ Len(submitted) <= Len(Images)
        /\ \A k \in 1..Len(submitted) :
              /\ submitted[k].index = k - 1
              /\ submitted[k].data = Images[k]
              /\ submitted[k].pts.den > 0
              /\ submitted[k].pts.num * Unwrap(frames).fps
                    = (k - 1) * submitted[k].pts.den
        /\ collector.pc \in {"exiting", "done"} => Len(submitted) = Len(Images)
        /\ SaveReturned => Data(output.frames) = Images

C2_Witness ==
    /\ collector.pc = "done"
    /\ Len(submitted) = 3
    /\ Unwrap(frames).fps = 2
    /\ submitted[2].pts = [num |-> 1, den |-> 2]
    /\ SaveReturned

(* C3: with an InputState the Collector has polled the cancel keys once per frame
   submitted, plus once for the frame it is about to submit; a poll that returns
   true before frame i leaves exactly the frames before i submitted and save never
   returns normally; without an InputState the Collector never polls, never stops
   on a cancel, and submits every frame. *)
C3_CancelAbortsSave ==
    SaveStarted =>
        /\ settings.input_state =>
              /\ collector.pc \in {"check", "exiting", "done"}
                    => collector.polls = Len(submitted)
              /\ collector.pc = "add" => collector.polls = Len(submitted) + 1
              /\ collector.polls \in {Len(submitted), Len(submitted) + 1}
        /\ log.encodeCancel # None =>
              /\ Len(submitted) = Unwrap(log.encodeCancel)
              /\ collector.pc \in {"unwinding", "panicked"}
              /\ ~SaveReturned
              /\ result \in {"none", "panic"}
              /\ pc \in {"write", "join_collector", "panicked"}
        /\ ~settings.input_state =>
              /\ collector.polls = 0
              /\ log.encodeCancel = None
              /\ collector.pc \in {"unwinding", "panicked"} => channel.receiverDropped
              /\ collector.pc \in {"exiting", "done"} => Len(submitted) = Len(Images)

C3_Witness ==
    /\ log.encodeCancel = Some(1)
    /\ Len(Images) = 3
    /\ Len(submitted) = 1
    /\ result = "panic"
    /\ collector.pc = "panicked"

(* C4: at most QueueBound frames are submitted and not yet consumed; the frames
   written followed by the frames queued are exactly the frames submitted, in
   order; a Collector facing a full queue and a Writer facing an empty open queue
   cannot take a step. *)
C4_BoundedQueue ==
    SaveStarted =>
        /\ Len(queue) <= QueueBound
        /\ submitted = output.frames \o queue
        /\ Len(submitted) - Len(output.frames) <= QueueBound
        /\ (collector.pc = "add" /\ Len(queue) = QueueBound /\ ~channel.receiverDropped)
              => ~ENABLED CollectorAdd
        /\ (pc = "write" /\ queue = <<>> /\ ~channel.senderDropped)
              => (~ENABLED WriterTake /\ ~ENABLED WriterFinish)

C4_Witness ==
    /\ collector.pc = "add"
    /\ Len(queue) = QueueBound
    /\ ~channel.receiverDropped
    /\ pc = "write"
    /\ Len(submitted) = QueueBound

(* C5: the looping written to the GIF is the repeat setting: 0 plays once, -1
   loops forever, N > 0 repeats exactly N times. *)
C5_RepeatFixesLooping ==
    (encoder.created /\ output.looping # Unset) =>
        /\ settings.repeat = 0 => output.looping.kind = "once"
        /\ settings.repeat = -1 => output.looping.kind = "infinite"
        /\ settings.repeat > 0 =>
              output.looping = [kind |-> "finite", times |-> settings.repeat]

(* C6: in command mode the recording runs on its own thread and the caller holds
   no frame until it has joined it, which it does only after the command has
   completed; the recording never polls the cancel keys in this mode; without a
   command the loop runs on the caller's thread, inside record_sync. *)
C6_CommandThenJoin ==
    (settings.format = "Gif" /\ ~settings.edit) =>
        /\ settings.command =>
              /\ recorder.mode \in {"none", "async"}
              /\ frames # None => (cmd = "done" /\ recorder.pc = "joined")
              /\ log.recorded # None => (cmd = "done" /\ recorder.pc = "joined")
              /\ pc \in {"join", "joining"} => cmd = "done"
              /\ log.cmdAtJoin \in {"no", "done"}
              /\ log.recPolls = 0
              /\ pc # "record_sync"
        /\ ~settings.command =>
              /\ recorder.mode \in {"none", "sync"}
              /\ cmd = "idle"
              /\ recorder.pc \in {"running", "poll"} => pc = "record_sync"

C6_Witness ==
    /\ settings.command
    /\ log.cmdAtJoin = "done"
    /\ recorder.pc = "joined"
    /\ Len(Images) = 2
    /\ pc = "save_gif"

(* the join handle is handed back before any frame exists *)
C6_WitnessNoWait ==
    /\ settings.command
    /\ pc = "command"
    /\ recorder.pc = "running"
    /\ recorder.frames = <<>>

(* C7: when record_sync ends on a cancel, the record step returns the frames
   captured so far without a panic or an error, and save_gif receives exactly
   those frames, in order, with the record fps. *)
C7_CancelReturnsFrames ==
    (log.recordEnd = "cancelled" /\ recorder.mode = "sync") =>
        /\ pc = "record_sync" => (result = "none" /\ ENABLED RecordSyncReturn)
        /\ pc # "record_sync" =>
              /\ log.recorded = Some(recorder.frames)
              /\ frames = Some([images |-> recorder.frames, fps |-> settings.fps])
        /\ log.handed # None =>
              log.handed = Some([images |-> recorder.frames, fps |-> settings.fps])
        /\ result \in {"Err(new)", "Err(metadata)"} => log.handed # None
        /\ result = "panic" => log.handed # None

C7_Witness ==
    /\ log.recordEnd = "cancelled"
    /\ Len(recorder.frames) = 2
    /\ log.handed = Some([images |-> recorder.frames, fps |-> settings.fps])
    /\ encoder.created

(* C8: an encoder exists only for a frame list with at least one frame; an empty
   list handed to save_gif ends in a panic with no encoder, no collector thread
   and an untouched output. *)
C8_NoEncodingOfEmptyList ==
    /\ encoder.created => Len(Images) >= 1
    /\ (log.handed # None /\ Len(Unwrap(log.handed).images) = 0) =>
          /\ result = "panic"
          /\ pc = "panicked"
          /\ encoder = NoEncoder
          /\ collector = NoCollector
          /\ submitted = <<>>
          /\ output = NoOutput

C8_Witness ==
    /\ settings.command
    /\ log.handed # None
    /\ Len(Unwrap(log.handed).images) = 0
    /\ recorder.pc = "joined"
    /\ result = "panic"

(* C9: once App::start has ended in a run with a window whose recording ended
   and returned its frames, the window has been released exactly once, after the output was saved, and no
   get_image or show_countdown call came after the release. *)
C9_ReleasedAfterRecording ==
    /\ window.released <= 1
    /\ log.lateCalls = 0
    /\ window.released = 1 => log.savedAtRelease = "saved"
    /\ (pc \in {"returned", "panicked"} /\ window.present /\ log.recorded # None)
          => window.released = 1

(* C10: check_cancel_pressed is true exactly when Escape is among the pressed
   keys, or a Ctrl key and D both are. *)
C10_CancelIffEscapeOrCtrlD ==
    cancelled <=> \/ "Escape" \in keys
                  \/ ("D" \in keys /\ keys \cap {"LControl", "RControl"} # {})

(* C11: with speed = 0 the edit is refused before decoding: no frame is ever
   decoded, the delay formula is never evaluated, and a run that got as far as
   the decoder ends in the refusal. *)
C11_ZeroSpeedRejected ==
    (settings.edit /\ settings.format = "Gif" /\ settings.speed = 0) =>
        /\ ~log.decoded
        /\ log.delay = None
        /\ frames = None
        /\ pc \in {"start", "open_edit", "decoder_new", "returned", "panicked"}
        /\ pc = "panicked" => log.rejected
        /\ result # "Ok"

C11_Witness ==
    /\ settings.speed = 0
    /\ log.rejected
    /\ result = "panic"
    /\ ~log.decoded

(* C12: a still format without edit captures one still image and never records
   or decodes; GIF with edit decodes and never captures or records; GIF without
   edit records and never captures a still or decodes; GIF output frames come
   from the encoder only; a start that returned Ok left a finished, non-empty
   output. *)
C12_OneFrameSource ==
    /\ (settings.format # "Gif" /\ ~settings.edit) =>
          /\ log.stills <= 1
          /\ recorder = NoRecorder
          /\ ~log.decoded
          /\ frames = None /\ ~encoder.created
          /\ pc \in {"save_image", "metadata", "release", "returned"} => log.stills = 1
    /\ (settings.format = "Gif" /\ settings.edit) =>
          /\ log.stills = 0 /\ image = NoImage
          /\ recorder = NoRecorder /\ log.recorded = None
          /\ frames # None => log.decoded
    /\ (settings.format = "Gif" /\ ~settings.edit) =>
          /\ log.stills = 0 /\ image = NoImage
          /\ ~log.decoded
          /\ frames # None => log.recorded = Some(Images)
    /\ settings.format = "Gif" =>
          /\ output.frames # <<>> => encoder.created
          /\ Len(output.frames) <= Len(submitted)
          /\ output.frames = SubSeq(submitted, 1, Len(output.frames))
          /\ encoder.created => log.handed = frames
    /\ result = "Ok" => (output.finished /\ Len(output.frames) >= 1)

C12_Witness ==
    /\ result = "Ok"
    /\ settings.format = "Png"
    /\ settings.command
    /\ log.stills = 1
    /\ Len(output.frames) = 1

C12_WitnessEdit ==
    /\ result = "Ok"
    /\ settings.format = "Gif"
    /\ settings.edit
    /\ log.decoded
    /\ Len(output.frames) = 2

(* ---- FileFormat::from_args and File::from_format on their own ---- *)

InitFile ==
    /\ settings = [format |-> "Gif", edit |-> FALSE, command |-> FALSE,
                   fps |-> 1, repeat |-> -1, input_state |-> TRUE, speed |-> 100]
    /\ window = [present |-> TRUE, released |-> 0]
    /\ file = FileOf(NoArgs)
    /\ InitApp

(* the save file of the settings: File::from_format(FileFormat::from_args(args)) *)
FromArgs ==
    /\ \E args \in ArgMatches : file' = FileOf(args)
    /\ UNCHANGED <<settings, window, pc, result, image, frames, recorder, cmd, log>>
    /\ EncoderIdle /\ PollIdle

NextFile == FromArgs

SpecFile == InitFile /\ [][NextFile]_vars

(* the words of the test in file.rs, spelled out *)
Word(arg) ==
    CASE arg = "gif" -> <<"g", "i", "f">>
      [] arg = "png" -> <<"p", "n", "g">>
      [] arg = "jpg" -> <<"j", "p", "g">>
      [] arg = "bmp" -> <<"b", "m", "p">>
      [] arg = "ico" -> <<"i", "c", "o">>
      [] arg = "tiff" -> <<"t", "i", "f", "f">>
      [] arg = "pnm" -> <<"p", "n", "m">>
      [] arg = "ff" -> <<"f", "f">>

Priority == <<"gif", "ff", "tiff", "pnm", "bmp", "ico", "jpg">>
FormatOfArg == [a \in FormatArgs |->
                  CASE a = "gif" -> "Gif" [] a = "png" -> "Png" [] a = "jpg" -> "Jpg"
                    [] a = "bmp" -> "Bmp" [] a = "ico" -> "Ico" [] a = "tiff" -> "Tiff"
                    [] a = "pnm" -> "Pnm" [] a = "ff" -> "Ff"]

(* C13: the format is Gif when the subcommand looked up (edit, else split, else
   capture) was not matched; otherwise it is the first of gif, ff, tiff, pnm,
   bmp, ico, jpg that is present, and Png when none is; a single format other
   than gif given under capture yields the default path with file name
   t.<format>. *)
C13_FormatFromArgs ==
    LET args == file.args
        sub == IF "edit" \in args.subs THEN "edit"
               ELSE IF "split" \in args.subs THEN "split" ELSE "capture"
        hits == {k \in 1..Len(Priority) : Priority[k] \in args.present}
    IN /\ sub \notin args.subs => file.file.format = "Gif"
       /\ (sub \in args.subs /\ hits = {}) => file.file.format = "Png"
       /\ (sub \in args.subs /\ hits # {}) =>
             \E k \in hits : /\ \A j \in hits : k <= j
                             /\ file.file.format = FormatOfArg[Priority[k]]
       /\ \A a \in FormatArgs \ {"gif"} :
             (args.subs = {"capture"} /\ args.present = {a}) =>
                 file.file.path = [dir |-> "pictures",
                                   name |-> <<"t", ".">> \o Word(a)]

C13_Witness ==
    /\ file.args = [subs |-> {"capture"}, present |-> {"ico", "jpg"}]
    /\ file.file.format = "Ico"

C13_WitnessPath ==
    /\ file.args = [subs |-> {"capture"}, present |-> {"tiff"}]
    /\ file.file.path.name = <<"t", ".", "t", "i", "f", "f">>

(* C14: whatever calls and device states came before, the result of the last
   check_cancel_pressed is decided by the keys pressed at that call alone, and
   the result of the last check_mouse_clicked by the buttons pressed at that call
   alone; nothing is latched from an earlier call. *)
C14_SnapshotOnly ==
    /\ cancelled <=> ("Escape" \in keys \/ {"LControl", "D"} \subseteq keys)
    /\ clicked <=> (mouse # <<>> /\ (mouse[2] \/ mouse[4]))

(* a call that returns false after an earlier call returned true *)
C14_Witness ==
    /\ log.cancelSeen
    /\ ~cancelled
    /\ keys = {"LControl"}
    /\ log.clickSeen
    /\ ~clicked

(* in App::start: the recording ended on a cancel, and a later poll by the
   Collector returned false *)
C14_WitnessCollector ==
    /\ log.recordEnd = "cancelled"
    /\ collector.polls >= 1
    /\ ~cancelled
    /\ Len(submitted) >= 1

(* ---- GifskiEncoder::save on its own, with fair scheduling of its threads ---- *)

(* save is entered with an encoder built by new, any frame list, with or without
   an InputState *)
InitSave ==
    /\ file = FileOf(NoArgs)
    /\ \E f \in 1..MaxFps, inp \in BOOLEAN :
          /\ settings = [format |-> "Gif", edit |-> FALSE, command |-> FALSE,
                         fps |-> f, repeat |-> -1, input_state |-> inp, speed |-> 100]
          /\ \E n \in 0..MaxFrames : \E imgs \in [1..n -> Pixels] :
                frames = Some([images |-> imgs, fps |-> f])
          /\ encoder = NewEncoder(f, -1)
    /\ window = [present |-> TRUE, released |-> 0]
    /\ pc = "save"
    /\ result = "none"
    /\ image = NoImage
    /\ recorder = NoRecorder
    /\ cmd = "idle"
    /\ collector = NoCollector
    /\ queue = <<>>
    /\ channel = [senderDropped |-> FALSE, receiverDropped |-> FALSE]
    /\ submitted = <<>>
    /\ output = NoOutput
    /\ keys = {}
    /\ cancelled = FALSE
    /\ mouse = <<>>
    /\ clicked = FALSE
    /\ log = NoLog

CollectorThread == CollectorCheck \/ CollectorAdd \/ CollectorExit \/ CollectorTerminate
CallerThread == Save \/ WriterTake \/ WriterFinish \/ JoinCollector

NextSave == CollectorThread \/ CallerThread

(* both threads are scheduled by the operating system: neither is starved while
   it can take a step *)
SpecSave ==
    InitSave /\ [][NextSave]_vars /\ WF_vars(CollectorThread) /\ WF_vars(CallerThread)

(* save is over for its caller, normally or by a panic, and the collector thread
   has ended *)
SaveEnded ==
    /\ pc \in {"metadata", "panicked"}
    /\ collector.pc \in {"done", "panicked"}

(* C15: every run of save reaches the point where the caller is out of save,
   by a normal return or a panic, and the collector thread has ended; in
   particular after a cancel or a failed submission. *)
C15_SaveTerminates == <>SaveEnded

(* the Collector stopped on a cancel, the Writer still finished the output and
   save ended in a panic *)
C15_Witness ==
    /\ SaveEnded
    /\ log.encodeCancel = Some(1)
    /\ output.finished
    /\ result = "panic"

(* a submission failed because the Writer was gone, and the collector thread ended *)
C15_WitnessFailedSubmission ==
    /\ SaveEnded
    /\ channel.receiverDropped
    /\ collector.pc = "panicked"
    /\ log.encodeCancel = None

(* ---- failures in the GIF path of App::start ---- *)

(* C16: a failed File::open of the edit input ends start with that error, with
   nothing decoded, recorded, encoded or written; an error returned by save_gif
   ends start with that same error and nothing written; start never returns Ok
   after either failure, and takes no further step. *)
C16_GifFailurePropagates ==
    /\ log.opened = "Err(open)" =>
          /\ result = "Err(open)"
          /\ pc = "returned"
          /\ ~log.decoded
          /\ frames = None
          /\ recorder = NoRecorder
          /\ log.handed = None
          /\ encoder = NoEncoder
          /\ collector = NoCollector
          /\ submitted = <<>>
          /\ output = NoOutput
    /\ log.saveGif = "Err(new)" =>
          /\ result = log.saveGif
          /\ pc = "returned"
          /\ encoder = NoEncoder
          /\ collector = NoCollector
          /\ output = NoOutput
    /\ result = "Ok" => (log.opened # "Err(open)" /\ log.saveGif = "no")

(* start has returned the error of the failed File::open *)
C16_Witness ==
    /\ settings.edit
    /\ log.opened = "Err(open)"
    /\ result = "Err(open)"

(* start has returned the error of save_gif, after a recording of two frames *)
C16_WitnessSaveGif ==
    /\ log.saveGif = "Err(new)"
    /\ result = "Err(new)"
    /\ log.recorded # None
    /\ Len(Images) = 2

====
